---- MODULE Spec2Model ----
(***************************************************************************)
(* Model of the instance/solution catalog of instance_repository_backend:  *)
(* the UID-addressed compressed file stores, the relational instance and   *)
(* solution indexes with their range-bounds table, the HTTP handlers that  *)
(* combine them, and the reconciliation passes run by sync.                *)
(*                                                                         *)
(* Strings are sequences of one-character strings, so that the identifier  *)
(* grammar, path normalisation and substring search act on characters.     *)
(***************************************************************************)
EXTENDS Integers, Sequences, FiniteSets, TLC

VARIABLES
    files,      \* instances root: relative path (without ".json.xz") -> file text
    index,      \* <problem_uid>_instances table: primary key -> row
    bounds,     \* RangeQueryBounds table: field_name -> [min_val, max_val]
    assets,     \* assets root: set of <<asset_class, relative path>>
    solFiles,   \* solutions root: relative path (without ".json.xz") -> file text
    solIndex,   \* <problem_uid>_solution_index table: primary key -> row
    indexed,    \* history: field_name -> finite values committed by index_instance
    last,       \* the operation that ran last: [op, uid, outcome]
    ret,        \* what that operation returned
    procs       \* concurrent callers of the instance file store: call and position

vars == <<files, index, bounds, assets, solFiles, solIndex, indexed, last, ret, procs>>

----------------------------------------------------------------------------
(* Bounds of the model *)

MaxVal == 2
MaxObjective == 2
MaxOffset == 1
MaxLimit == 2
MaxUidLen == 2
MaxTracked == 5

----------------------------------------------------------------------------
(* Values *)

\* Python's None (default of min_val / max_val and of absent query fields)
None == -1

\* float("inf"): larger than every finite value of the model
INF == MaxVal + 100

FiniteValues == 1..MaxVal
Values == FiniteValues \cup {INF}

isfinite(v) == v # INF

----------------------------------------------------------------------------
(* Catalog descriptor (config.py of a problem) *)

uid_attribute == "instance_uid"
RANGE_FILTERS == <<"weight_capacity_ratio">>
BOOLEAN_FILTERS == <<"integral">>
SORT_FIELDS == <<"weight_capacity_ratio">>
DISPLAY_FIELDS == <<"instance_uid", "weight_capacity_ratio", "integral">>
ASSETS == {"thumbnail"}
solution_index_field == "solution_uid"
SOLUTION_DISPLAY_FIELDS == <<"objective">>

\* every field of the instance schema, in declaration order
INSTANCE_SCHEMA == <<"instance_uid", "weight_capacity_ratio", "integral", "capacity">>
SOLUTION_SCHEMA == <<"instance_uid", "objective">>

Range(s) == {s[i] : i \in DOMAIN s}

----------------------------------------------------------------------------
(* Identifiers *)

\* the characters of the model for which str.isalnum() is true; "U+00E9"
\* (e with acute, a letter) and "U+00BD" (vulgar fraction one half, a numeric
\* character that is neither a letter nor a digit) stand for one character each
AlnumChars ==
    {"a", "b", "A", "0", "1", "2", "3", "4", "5", "6", "7", "8", "9",
     "U+00E9", "U+00BD"}

isalnum(c) == c \in AlnumChars

startswith(s, p) == Len(s) >= Len(p) /\ SubSeq(s, 1, Len(p)) = p

endswith(s, p) == Len(s) >= Len(p) /\ SubSeq(s, Len(s) - Len(p) + 1, Len(s)) = p

\* check_uid_pattern(uid, fail=False)
check_uid_pattern(uid) ==
    ~ ( ~ (\A i \in DOMAIN uid : isalnum(uid[i]) \/ uid[i] \in {"-", "_", "/"})
        \/ startswith(uid, <<"/">>)
        \/ endswith(uid, <<"/">>) )

\* check_uid_pattern(uid, fail): with fail it raises instead of returning False
check_uid_pattern_outcome(uid, fail) ==
    IF ~check_uid_pattern(uid) /\ fail THEN "ValueError:uid" ELSE "ok"

UidA == <<"a">>
UidAB == <<"a", "/", "b">>
UidASlashSlashB == <<"a", "/", "/", "b">>
UidLeadingSlash == <<"/", "a">>

ValidUids == {UidA, UidAB, UidASlashSlashB}
Uids == ValidUids \cup {UidLeadingSlash}

\* pathlib: consecutive separators of a relative path collapse into one
RECURSIVE PurePath(_)
PurePath(s) ==
    IF Len(s) <= 1 THEN s
    ELSE IF s[1] = "/" /\ s[2] = "/" THEN PurePath(Tail(s))
         ELSE <<s[1]>> \o PurePath(Tail(s))

\* the file <root>.json.xz, which lies next to the root directory
RootSibling == <<"..">>

\* (root / uid).with_suffix(".json.xz"), relative to root and without the
\* suffix (the identifiers that reach the file store contain no "."): root / ""
\* is root itself, whose suffixed name lies next to root, and root / uid is
\* uid itself when uid is absolute
PathOf(uid) == IF uid = <<>> THEN RootSibling ELSE PurePath(uid)

\* path.is_relative_to(root)
is_relative_to_root(path) == path # <<>> /\ path[1] \notin {"/", ".."}

----------------------------------------------------------------------------
(* Records of the catalog and their JSON text *)

Capacities == {7}

\* KnapsackInstance-like records accepted by the instance endpoints
Instances ==
    [instance_uid : Uids, weight_capacity_ratio : Values,
     integral : BOOLEAN, capacity : Capacities]

Objectives == 1..MaxObjective

\* KnapsackSolution-like records accepted by the solution endpoints
Solutions == [instance_uid : Uids, objective : Objectives]

FloatFields == {"weight_capacity_ratio", "capacity", "objective"}

\* pydantic serialises a float field as a JSON number, and a non-finite
\* float as JSON null (ser_json_inf_nan defaults to "null")
JsonValue(f, v) ==
    IF f \in FloatFields
    THEN IF isfinite(v) THEN [t |-> "number", v |-> v] ELSE [t |-> "null", v |-> 0]
    ELSE v

\* data.model_dump_json(): the fields in schema order, as <<name, value>>
model_dump_json(schema, data) ==
    [i \in DOMAIN schema |-> <<schema[i], JsonValue(schema[i], data[schema[i]])>>]

JsonMember(txt, f) == txt[CHOOSE i \in DOMAIN txt : txt[i][1] = f][2]

\* model.model_validate_json raises ValidationError unless every declared
\* field is present with a value of its type (null is no float)
json_is_valid(schema, txt) ==
    \A f \in Range(schema) :
        /\ \E i \in DOMAIN txt : txt[i][1] = f
        /\ f \in FloatFields => JsonMember(txt, f).t = "number"

\* model.model_validate_json(text) for a text that validates
model_validate_json(schema, txt) ==
    [f \in Range(schema) |->
        IF f \in FloatFields THEN JsonMember(txt, f).v ELSE JsonMember(txt, f)]

----------------------------------------------------------------------------
(* LocalFileSystemWithCompression: a store maps relative paths to texts *)

EmptyStore == [p \in {} |-> <<>>]

StorePut(store, path, txt) ==
    [p \in DOMAIN store \cup {path} |-> IF p = path THEN txt ELSE store[p]]

StoreRemove(store, path) == [p \in DOMAIN store \ {path} |-> store[p]]

fs_exists(store, uid) == PathOf(uid) \in DOMAIN store

\* save without the test for an existing file
fs_save_clobber(store, txt, uid, exists_ok) ==
    [outcome |-> "ok", store |-> StorePut(store, PathOf(uid), txt)]

\* save(data, uid, exists_ok): the text written is data.model_dump_json();
\* Path("").with_suffix raises ValueError (empty name), and the closing
\* path.relative_to(self.root) raises ValueError for a path outside root
fs_save(store, txt, uid, exists_ok) ==
    IF uid = <<>>
    THEN [outcome |-> "ValueError:name", store |-> store]
    ELSE IF fs_exists(store, uid) /\ ~exists_ok
    THEN [outcome |-> "ValueError:exists", store |-> store]
    ELSE [outcome |-> IF is_relative_to_root(PathOf(uid)) THEN "ok"
                      ELSE "ValueError:relative_to",
          store |-> StorePut(store, PathOf(uid), txt)]

\* load(model, uid): outcome and, when ok, the validated record
fs_load_outcome(store, schema, uid) ==
    IF ~fs_exists(store, uid) THEN "KeyError"
    ELSE IF ~json_is_valid(schema, store[PathOf(uid)]) THEN "ValidationError"
    ELSE "ok"

fs_load(store, schema, uid) == model_validate_json(schema, store[PathOf(uid)])

fs_delete(store, uid) ==
    IF fs_exists(store, uid) THEN StoreRemove(store, PathOf(uid)) ELSE store

\* all_uids(): the globbed relative paths that pass the identifier check
all_uids(store) == {p \in DOMAIN store : check_uid_pattern(p)}

----------------------------------------------------------------------------
(* InstanceRepository *)

\* exists(instance_uid): the outcome; the value returned is fs_exists
repo_exists_outcome(instance_uid) ==
    IF ~check_uid_pattern(instance_uid) THEN "ValueError:uid" ELSE "ok"

\* write_instance(instance, overwrite): outcome and the store afterwards
write_instance(store, instance, overwrite) ==
    IF ~check_uid_pattern(instance[uid_attribute])
    THEN [outcome |-> "ValueError:uid", store |-> store]
    ELSE fs_save(store, model_dump_json(INSTANCE_SCHEMA, instance),
                 instance[uid_attribute], overwrite)

\* read_instance without the comparison of the payload's UID
read_instance_outcome_unverified(store, instance_uid) ==
    IF ~check_uid_pattern(instance_uid) THEN "ValueError:uid"
    ELSE fs_load_outcome(store, INSTANCE_SCHEMA, instance_uid)

\* read_instance(instance_uid): the outcome
read_instance_outcome(store, instance_uid) ==
    IF ~check_uid_pattern(instance_uid) THEN "ValueError:uid"
    ELSE IF fs_load_outcome(store, INSTANCE_SCHEMA, instance_uid) # "ok"
         THEN fs_load_outcome(store, INSTANCE_SCHEMA, instance_uid)
    ELSE IF fs_load(store, INSTANCE_SCHEMA, instance_uid)[uid_attribute] # instance_uid
         THEN "ValueError:mismatch"
    ELSE "ok"

\* read_instance(instance_uid): the record returned when the outcome is ok
read_instance(store, instance_uid) == fs_load(store, INSTANCE_SCHEMA, instance_uid)

\* delete_instance that unlinks without testing whether the file exists
repo_delete_instance_unlink(store, instance_uid) ==
    IF ~check_uid_pattern(instance_uid)
    THEN [outcome |-> "ValueError:uid", store |-> store]
    ELSE IF ~fs_exists(store, instance_uid)
         THEN [outcome |-> "FileNotFoundError", store |-> store]
    ELSE [outcome |-> "ok", store |-> StoreRemove(store, PathOf(instance_uid))]

\* delete_instance(instance_uid): outcome and the store afterwards
repo_delete_instance(store, instance_uid) ==
    IF ~check_uid_pattern(instance_uid)
    THEN [outcome |-> "ValueError:uid", store |-> store]
    ELSE [outcome |-> "ok", store |-> fs_delete(store, instance_uid)]

get_all_instance_uids(store) == all_uids(store)

----------------------------------------------------------------------------
(* RangeQueryBounds *)

NoBounds == [min_val |-> None, max_val |-> None]

\* update with the comparison against min_val inverted
bounds_update_inverted(row, val) ==
    IF ~isfinite(val) THEN [changed |-> FALSE, row |-> row]
    ELSE IF row.min_val = None \/ row.max_val = None
         THEN [changed |-> TRUE, row |-> [min_val |-> val, max_val |-> val]]
    ELSE [changed |-> val > row.min_val \/ val > row.max_val,
          row |-> [min_val |-> IF val > row.min_val THEN val ELSE row.min_val,
                   max_val |-> IF val > row.max_val THEN val ELSE row.max_val]]

\* RangeQueryBounds.update(val): the returned flag and the row afterwards
bounds_update(row, val) ==
    IF ~isfinite(val) THEN [changed |-> FALSE, row |-> row]
    ELSE IF row.min_val = None \/ row.max_val = None
         THEN [changed |-> TRUE, row |-> [min_val |-> val, max_val |-> val]]
    ELSE [changed |-> val < row.min_val \/ val > row.max_val,
          row |-> [min_val |-> IF val < row.min_val THEN val ELSE row.min_val,
                   max_val |-> IF val > row.max_val THEN val ELSE row.max_val]]

----------------------------------------------------------------------------
(* InstanceIndex: db is [index, bounds, indexed], the two tables of the
   database and the history of committed finite values *)

EmptyTable == [k \in {} |-> <<>>]

TablePut(table, key, row) ==
    [k \in DOMAIN table \cup {key} |-> IF k = key THEN row ELSE table[k]]

TableRemove(table, key) == [k \in DOMAIN table \ {key} |-> table[k]]

\* columns of the generated index table
IndexColumns ==
    {uid_attribute} \cup
    ((Range(RANGE_FILTERS) \cup Range(BOOLEAN_FILTERS) \cup Range(SORT_FIELDS)
        \cup Range(DISPLAY_FIELDS)) \ {uid_attribute})

\* get_instance_info_from_data: IndexTable(**instance.model_dump())
get_instance_info_from_data(instance) == [c \in IndexColumns |-> instance[c]]

\* exists(instance_uid, session): session.get(IndexTable, uid) is not None
index_exists(table, instance_uid) == instance_uid \in DOMAIN table

\* session.refresh(obj): the attributes of obj are expired, which drops its
\* unflushed changes, and are loaded again from the row in the table
session_refresh(table, key, obj) == table[key]

\* the row of an instance after index_instance's get / setattr / refresh / add
upsert_row(table, instance) ==
    LET instance_index == get_instance_info_from_data(instance)
        key == instance[uid_attribute]
    IN  IF index_exists(table, key)
        THEN LET existing_instance ==
                    [c \in IndexColumns |->
                        IF c # uid_attribute THEN instance_index[c] ELSE table[key][c]]
             IN  TablePut(table, key, session_refresh(table, key, existing_instance))
        ELSE TablePut(table, key, instance_index)

\* the "update range query bounds" loop over the fields still to visit
RECURSIVE update_range_query_bounds(_, _, _)
update_range_query_bounds(btable, instance, fields) ==
    IF fields = <<>> THEN btable
    ELSE LET field_name == Head(fields)
             row == IF field_name \in DOMAIN btable THEN btable[field_name] ELSE NoBounds
         IN  update_range_query_bounds(
                 TablePut(btable, field_name, bounds_update(row, instance[field_name]).row),
                 instance, Tail(fields))

\* index_instance(instance, session), committed
index_instance(db, instance) ==
    [index |-> upsert_row(db.index, instance),
     bounds |-> update_range_query_bounds(db.bounds, instance, RANGE_FILTERS),
     indexed |-> [f \in DOMAIN db.indexed |->
                    IF isfinite(instance[f]) THEN db.indexed[f] \cup {instance[f]}
                    ELSE db.indexed[f]]]

SetMin(S) == CHOOSE x \in S : \A y \in S : x <= y

SetMax(S) == CHOOSE x \in S : \A y \in S : x >= y

\* deindex that recomputes the bounds from the rows that remain
deindex_instance_recompute(db, instance_uid) ==
    LET table == IF index_exists(db.index, instance_uid)
                 THEN TableRemove(db.index, instance_uid) ELSE db.index
        live(f) == {table[k][f] : k \in {j \in DOMAIN table : isfinite(table[j][f])}}
    IN  [db EXCEPT !.index = table,
                   !.bounds = [f \in DOMAIN db.bounds |->
                                IF live(f) = {} THEN NoBounds
                                ELSE [min_val |-> SetMin(live(f)),
                                      max_val |-> SetMax(live(f))]]]

\* deindex_instance(instance_uid, session)
deindex_instance(db, instance_uid) ==
    IF index_exists(db.index, instance_uid)
    THEN [db EXCEPT !.index = TableRemove(db.index, instance_uid)]
    ELSE db

get_instance_uids(table) == DOMAIN table

----------------------------------------------------------------------------
(* InstanceIndex.__init__: the index table and the query schema generated
   from a catalog descriptor info = [range_filters, boolean_filters,
   sort_fields, display_fields] and the fields of its record schema *)

\* class_dict / annotations of the generated table, or the KeyError that
\* instance_model.__annotations__[field_name] raises for a name that is no
\* field of the record schema
index_table_outcome(info, schema_fields) ==
    IF \E f \in ({uid_attribute} \cup Range(info.range_filters)
                    \cup Range(info.boolean_filters) \cup Range(info.sort_fields)
                    \cup Range(info.display_fields)) : f \notin schema_fields
    THEN "KeyError" ELSE "ok"

\* the annotations of the query schema before the reserved fields are added:
\* <<f, postfix>> stands for the name f + postfix_query + postfix, and <<f>>
\* for f + postfix_query, postfix_query being the empty string
query_annotations(info) ==
    {<<info.range_filters[i], "__geq">> : i \in DOMAIN info.range_filters}
        \cup {<<info.range_filters[i], "__leq">> : i \in DOMAIN info.range_filters}
        \cup {<<info.boolean_filters[i]>> : i \in DOMAIN info.boolean_filters}

\* _generate_query_schema: model_fields[field_name] raises KeyError for a
\* filter that is no field, and each reserved name is asserted not to be
\* among the annotations collected so far
query_schema_outcome(info, schema_fields) ==
    IF \E f \in Range(info.range_filters) \cup Range(info.boolean_filters) :
            f \notin schema_fields
    THEN "KeyError"
    ELSE IF \E r \in {"sort_by", "search", "offset", "limit"} :
                <<r>> \in query_annotations(info)
         THEN "AssertionError"
    ELSE "ok"

\* InstanceIndex(problem_info): the table first, then the query schema
instance_index_init_outcome(info, schema_fields) ==
    IF index_table_outcome(info, schema_fields) # "ok"
    THEN index_table_outcome(info, schema_fields)
    ELSE query_schema_outcome(info, schema_fields)

----------------------------------------------------------------------------
(* InstanceIndex.query: an absent (None) field of the query is the empty
   set, a present one the set of its value *)

POSTFIX_QUERY_GEQ == [weight_capacity_ratio |-> "weight_capacity_ratio__geq"]
POSTFIX_QUERY_LEQ == [weight_capacity_ratio |-> "weight_capacity_ratio__leq"]

Present(x) == x # {}

ValueOf(x) == CHOOSE v \in x : TRUE

\* SQLite compares LIKE operands without regard to ASCII case
lower(c) == IF c = "A" THEN "a" ELSE IF c = "B" THEN "b" ELSE c

\* s LIKE p: "%" stands for any run of characters, "_" for any one
RECURSIVE like(_, _)
like(s, p) ==
    IF p = <<>> THEN s = <<>>
    ELSE IF Head(p) = "%"
         THEN like(s, Tail(p)) \/ (s # <<>> /\ like(Tail(s), p))
    ELSE /\ s # <<>>
         /\ (Head(p) = "_" \/ lower(Head(p)) = lower(Head(s)))
         /\ like(Tail(s), Tail(p))

\* column.contains(other): column LIKE '%' || other || '%', other unescaped
column_contains(value, other) == like(value, <<"%">> \o other \o <<"%">>)

\* the WHERE clause built from the range, boolean and search filters
query_filter(row, q) ==
    /\ \A f \in Range(RANGE_FILTERS) :
        /\ Present(q[POSTFIX_QUERY_GEQ[f]]) => row[f] >= ValueOf(q[POSTFIX_QUERY_GEQ[f]])
        /\ Present(q[POSTFIX_QUERY_LEQ[f]]) => row[f] <= ValueOf(q[POSTFIX_QUERY_LEQ[f]])
    /\ \A f \in Range(BOOLEAN_FILTERS) :
        Present(q[f]) => row[f] = ValueOf(q[f])
    /\ Present(q.search) => column_contains(row[uid_attribute], ValueOf(q.search))

\* sort_by is <<"-", field>> or <<field>>: sort_by[0] == "-" and sort_by[1:]
sort_descending(sort_by) == Head(sort_by) = "-"

sort_field(sort_by) == IF sort_descending(sort_by) THEN sort_by[2] ELSE sort_by[1]

\* getattr(self.IndexTable, field_name) raises for a name that is no column
query_outcome(q) ==
    IF Present(q.sort_by) /\ sort_field(ValueOf(q.sort_by)) \notin IndexColumns
    THEN "AttributeError" ELSE "ok"

\* the value ORDER BY compares: SQLite stores a boolean column as 0 or 1
sort_key(row, field_name) ==
    IF field_name \in Range(BOOLEAN_FILTERS)
    THEN IF row[field_name] THEN 1 ELSE 0
    ELSE row[field_name]

\* whether the sequence of keys is an order the ORDER BY clause allows;
\* without sort_by the store may return the rows in any order
query_ordered(table, q, keys) ==
    Present(q.sort_by) =>
        \A i, j \in DOMAIN keys :
            i < j =>
                IF sort_descending(ValueOf(q.sort_by))
                THEN sort_key(table[keys[i]], sort_field(ValueOf(q.sort_by)))
                        >= sort_key(table[keys[j]], sort_field(ValueOf(q.sort_by)))
                ELSE sort_key(table[keys[i]], sort_field(ValueOf(q.sort_by)))
                        <= sort_key(table[keys[j]], sort_field(ValueOf(q.sort_by)))

Minimum(a, b) == IF a <= b THEN a ELSE b

\* OFFSET n: SQLite skips no row when n is negative
sql_offset(n, rows) == IF n < 0 THEN 0 ELSE Minimum(n, rows)

\* LIMIT n: SQLite puts no upper bound on the rows when n is negative
sql_limit(n, rows) == IF n < 0 THEN rows ELSE Minimum(n, rows)

\* offset/limit that keeps every row from the offset on
paginate_unlimited(keys, offset, limit) ==
    SubSeq(keys, sql_offset(offset, Len(keys)) + 1, Len(keys))

\* statement.offset(offset).limit(limit) applied to the ordered rows
paginate(keys, offset, limit) ==
    SubSeq(keys, sql_offset(offset, Len(keys)) + 1,
           sql_offset(offset, Len(keys))
               + sql_limit(limit, Len(keys) - sql_offset(offset, Len(keys))))

\* query(query_schema, session): the response for one order of the rows
query(table, q, keys) ==
    [items |-> [i \in DOMAIN paginate(keys, q.offset, q.limit)
                    |-> table[paginate(keys, q.offset, q.limit)[i]]],
     offset |-> q.offset,
     limit |-> q.limit,
     total |-> Len(keys)]

----------------------------------------------------------------------------
(* Reconciliation of the instance index (sync_instance_index) *)

Orders(S) == {s \in [1..Cardinality(S) -> S] : Range(s) = S}

RECURSIVE deindex_each(_, _)
deindex_each(db, order) ==
    IF order = <<>> THEN db
    ELSE deindex_each(deindex_instance(db, Head(order)), Tail(order))

\* the second loop: read and index each uid; an exception of read_instance
\* ends the pass with what was committed so far
RECURSIVE index_each(_, _, _)
index_each(store, db, order) ==
    IF order = <<>> THEN [outcome |-> "ok", db |-> db]
    ELSE IF read_instance_outcome(store, Head(order)) # "ok"
         THEN [outcome |-> read_instance_outcome(store, Head(order)), db |-> db]
    ELSE index_each(store, index_instance(db, read_instance(store, Head(order))),
                    Tail(order))

\* a pass that only removes rows and never indexes the files without a row
sync_instance_index_deindex_only(store, db, order1, order2) ==
    [outcome |-> "ok", db |-> deindex_each(db, order1)]

\* sync_instance_index, the sets being iterated in the given orders
sync_instance_index(store, db, order1, order2) ==
    index_each(store, deindex_each(db, order1), order2)

----------------------------------------------------------------------------
(* SolutionRepository *)

HexDigits == <<"0", "1", "2", "3", "4", "5", "6", "7", "8", "9">>

\* hashlib.md5(text).hexdigest(): a digest of hexadecimal digits that is a
\* function of the text, free of collisions on the texts of the model
md5_hexdigest(txt) ==
    <<HexDigits[Len(JsonMember(txt, "instance_uid")) + 1],
      HexDigits[JsonMember(txt, "objective").v + 1]>>

\* solution_uid = f"{instance_uid}/{solution_hash}"
solution_uid_of(solution) ==
    solution[uid_attribute] \o <<"/">>
        \o md5_hexdigest(model_dump_json(SOLUTION_SCHEMA, solution))

\* write_solution that never overwrites, as write_instance does by default
write_solution_create_only(store, solution, overwrite) ==
    IF ~check_uid_pattern(solution[uid_attribute])
    THEN [outcome |-> "ValueError:uid", uid |-> <<>>, store |-> store]
    ELSE LET saved == fs_save(store, model_dump_json(SOLUTION_SCHEMA, solution),
                              solution_uid_of(solution), FALSE)
         IN  [outcome |-> saved.outcome, uid |-> solution_uid_of(solution),
              store |-> saved.store]

\* write_solution(solution, overwrite): outcome, returned uid, store afterwards
write_solution(store, solution, overwrite) ==
    IF ~check_uid_pattern(solution[uid_attribute])
    THEN [outcome |-> "ValueError:uid", uid |-> <<>>, store |-> store]
    ELSE LET saved == fs_save(store, model_dump_json(SOLUTION_SCHEMA, solution),
                              solution_uid_of(solution), overwrite)
         IN  [outcome |-> saved.outcome, uid |-> solution_uid_of(solution),
              store |-> saved.store]

\* read_solution(solution_uid): the outcome
read_solution_outcome(store, solution_uid) ==
    IF ~check_uid_pattern(solution_uid) THEN "ValueError:uid"
    ELSE IF fs_load_outcome(store, SOLUTION_SCHEMA, solution_uid) # "ok"
         THEN fs_load_outcome(store, SOLUTION_SCHEMA, solution_uid)
    ELSE IF ~startswith(solution_uid,
                fs_load(store, SOLUTION_SCHEMA, solution_uid)[uid_attribute] \o <<"/">>)
         THEN "ValueError:mismatch"
    ELSE "ok"

read_solution(store, solution_uid) == fs_load(store, SOLUTION_SCHEMA, solution_uid)

\* delete_solution(solution_uid): outcome and the store afterwards
repo_delete_solution(store, solution_uid) ==
    IF ~check_uid_pattern(solution_uid)
    THEN [outcome |-> "ValueError:uid", store |-> store]
    ELSE [outcome |-> "ok", store |-> fs_delete(store, solution_uid)]

\* list_solution_uids_of_instance: glob("solutions/<instance_uid>/**/*.json.xz")
list_solution_uids_of_instance(store, instance_uid) ==
    {p \in DOMAIN store :
        startswith(p, PathOf(instance_uid) \o <<"/">>) /\ check_uid_pattern(p)}

list_all_solution_uids(store) == all_uids(store)

----------------------------------------------------------------------------
(* SolutionIndex *)

SolutionColumns ==
    {solution_index_field} \cup Range(SOLUTION_DISPLAY_FIELDS) \cup {uid_attribute}

\* IndexTable(**solution_dict) with solution_dict[solution_index_field] set
solution_row(solution_uid, solution) ==
    [c \in SolutionColumns |->
        IF c = solution_index_field THEN solution_uid ELSE solution[c]]

solution_index_exists(table, solution_uid) == solution_uid \in DOMAIN table

\* index_solution: session.add of a new row, then commit; the insert violates
\* the primary key when a row with that solution_uid is already in the table
index_solution(table, solution_uid, solution) ==
    IF solution_uid \in DOMAIN table
    THEN [outcome |-> "IntegrityError", table |-> table]
    ELSE [outcome |-> "ok",
          table |-> TablePut(table, solution_uid, solution_row(solution_uid, solution))]

\* deindex_solution(solution_uid, session)
deindex_solution(table, solution_uid) ==
    IF ~check_uid_pattern(solution_uid)
    THEN [outcome |-> "ValueError:uid", table |-> table]
    ELSE [outcome |-> "ok",
          table |-> IF solution_uid \in DOMAIN table
                    THEN TableRemove(table, solution_uid) ELSE table]

\* a cascade that leaves the solution rows in the table
deindex_all_solutions_of_instance_none(table, instance_uid) == table

\* deindex_all_solutions_of_instance: DELETE ... WHERE <uid_attribute> = instance_uid
deindex_all_solutions_of_instance(table, instance_uid) ==
    [k \in {j \in DOMAIN table : table[j][uid_attribute] # instance_uid} |-> table[k]]

----------------------------------------------------------------------------
(* Reconciliation of the solution index (sync_solution_index) *)

\* the loop over list_all_solution_uids(): rows that exist are skipped, the
\* others are read and indexed; an exception ends the pass
RECURSIVE sync_solution_index(_, _, _)
sync_solution_index(store, table, order) ==
    IF order = <<>> THEN [outcome |-> "ok", table |-> table]
    ELSE IF solution_index_exists(table, Head(order))
         THEN sync_solution_index(store, table, Tail(order))
    ELSE IF read_solution_outcome(store, Head(order)) # "ok"
         THEN [outcome |-> read_solution_outcome(store, Head(order)), table |-> table]
    ELSE IF index_solution(table, Head(order), read_solution(store, Head(order))).outcome # "ok"
         THEN index_solution(table, Head(order), read_solution(store, Head(order)))
    ELSE sync_solution_index(store,
            index_solution(table, Head(order), read_solution(store, Head(order))).table,
            Tail(order))

----------------------------------------------------------------------------
(* AssetRepository: the store is the set of <<asset_class, relative path>> *)

\* add(asset_class, instance_uid, asset): outcome and the store afterwards
asset_add(store, asset_class, instance_uid) ==
    IF ~check_uid_pattern(instance_uid)
    THEN [outcome |-> "ValueError:uid", store |-> store]
    ELSE IF <<asset_class, PurePath(instance_uid)>> \in store
         THEN [outcome |-> "ValueError:exists", store |-> store]
    ELSE [outcome |-> "ok", store |-> store \cup {<<asset_class, PurePath(instance_uid)>>}]

\* delete_assets(instance_uid): outcome and the store afterwards
delete_assets(store, instance_uid) ==
    IF ~check_uid_pattern(instance_uid)
    THEN [outcome |-> "ValueError:uid", store |-> store]
    ELSE [outcome |-> "ok",
          store |-> store \ {<<c, PurePath(instance_uid)>> : c \in ASSETS}]

----------------------------------------------------------------------------
(* State after construction: empty stores, create_tables() on an empty
   database *)

NoReturn == <<>>

\* had_file / had_row: whether the file / the row the operation is about was
\* there when it started
Done(op, arg, had_file, had_row, outcome) ==
    [op |-> op, arg |-> arg, had_file |-> had_file, had_row |-> had_row,
     outcome |-> outcome]

Db == [index |-> index, bounds |-> bounds, indexed |-> indexed]

\* two request threads of the server
Callers == {1, 2}

\* a caller that has not called yet
IdleCaller ==
    [pc |-> "idle", op |-> "none", uid |-> <<>>, txt |-> <<>>, exists_ok |-> FALSE,
     outcome |-> "none", result |-> NoReturn]

Init ==
    /\ files = EmptyStore
    /\ index = EmptyTable
    /\ bounds = EmptyTable
    /\ assets = {}
    /\ solFiles = EmptyStore
    /\ solIndex = EmptyTable
    /\ indexed = [f \in Range(RANGE_FILTERS) |-> {}]
    /\ last = Done("init", <<>>, FALSE, FALSE, "ok")
    /\ ret = NoReturn
    /\ procs = [p \in Callers |-> IdleCaller]

----------------------------------------------------------------------------
(* Operations of the instance repository and the instance index *)

\* InstanceRepository.write_instance(instance, overwrite)
WriteInstance(instance, overwrite) ==
    LET res == write_instance(files, instance, overwrite)
    IN  /\ files' = res.store
        /\ last' = Done("write_instance",
                        [instance |-> instance, overwrite |-> overwrite],
                        fs_exists(files, instance[uid_attribute]),
                        index_exists(index, instance[uid_attribute]), res.outcome)
        /\ ret' = NoReturn
        /\ UNCHANGED <<procs, index, bounds, assets, solFiles, solIndex, indexed>>

\* InstanceRepository.read_instance(instance_uid)
ReadInstance(instance_uid) ==
    LET outcome == read_instance_outcome(files, instance_uid)
    IN  /\ last' = Done("read_instance", [uid |-> instance_uid],
                        fs_exists(files, instance_uid),
                        index_exists(index, instance_uid), outcome)
        /\ ret' = IF outcome = "ok" THEN read_instance(files, instance_uid) ELSE NoReturn
        /\ UNCHANGED <<procs, files, index, bounds, assets, solFiles, solIndex, indexed>>

\* InstanceRepository.delete_instance(instance_uid)
RepoDeleteInstance(instance_uid) ==
    LET res == repo_delete_instance(files, instance_uid)
    IN  /\ files' = res.store
        /\ last' = Done("repo_delete_instance", [uid |-> instance_uid],
                        fs_exists(files, instance_uid),
                        index_exists(index, instance_uid), res.outcome)
        /\ ret' = NoReturn
        /\ UNCHANGED <<procs, index, bounds, assets, solFiles, solIndex, indexed>>

\* InstanceIndex.index_instance(instance, session)
IndexInstance(instance) ==
    LET db == index_instance(Db, instance)
    IN  /\ index' = db.index
        /\ bounds' = db.bounds
        /\ indexed' = db.indexed
        /\ last' = Done("index_instance", [instance |-> instance],
                        fs_exists(files, instance[uid_attribute]),
                        index_exists(index, instance[uid_attribute]), "ok")
        /\ ret' = get_instance_info_from_data(instance)
        /\ UNCHANGED <<procs, files, assets, solFiles, solIndex>>

\* InstanceIndex.deindex_instance(instance_uid, session)
DeindexInstance(instance_uid) ==
    LET db == deindex_instance(Db, instance_uid)
    IN  /\ index' = db.index
        /\ bounds' = db.bounds
        /\ last' = Done("deindex_instance", [uid |-> instance_uid],
                        fs_exists(files, instance_uid),
                        index_exists(index, instance_uid), "ok")
        /\ ret' = NoReturn
        /\ UNCHANGED <<procs, files, assets, solFiles, solIndex, indexed>>

\* POST /instances: write_instance, then index_instance
CreateInstance(instance) ==
    LET written == write_instance(files, instance, FALSE)
        db == IF written.outcome = "ok" THEN index_instance(Db, instance) ELSE Db
    IN  /\ files' = written.store
        /\ index' = db.index
        /\ bounds' = db.bounds
        /\ indexed' = db.indexed
        /\ last' = Done("create_instance", [instance |-> instance],
                        fs_exists(files, instance[uid_attribute]),
                        index_exists(index, instance[uid_attribute]), written.outcome)
        /\ ret' = NoReturn
        /\ UNCHANGED <<procs, assets, solFiles, solIndex>>

RECURSIVE delete_each_solution(_, _)
delete_each_solution(store, order) ==
    IF order = <<>> THEN store
    ELSE delete_each_solution(repo_delete_solution(store, Head(order)).store, Tail(order))

\* DELETE /instances/{instance_uid}: the file, the row, the assets, the
\* solution rows and the solution files, in that order
DeleteInstance(instance_uid) ==
    LET deleted == repo_delete_instance(files, instance_uid)
        ok == deleted.outcome = "ok"
    IN  /\ files' = deleted.store
        /\ index' = IF ok THEN deindex_instance(Db, instance_uid).index ELSE index
        /\ bounds' = IF ok THEN deindex_instance(Db, instance_uid).bounds ELSE bounds
        /\ assets' = IF ok THEN delete_assets(assets, instance_uid).store ELSE assets
        /\ solIndex' = IF ok THEN deindex_all_solutions_of_instance(solIndex, instance_uid)
                       ELSE solIndex
        /\ \E order \in Orders(IF ok THEN list_solution_uids_of_instance(solFiles, instance_uid)
                               ELSE {}) :
                solFiles' = delete_each_solution(solFiles, order)
        /\ last' = Done("delete_instance", [uid |-> instance_uid],
                        fs_exists(files, instance_uid),
                        index_exists(index, instance_uid), deleted.outcome)
        /\ ret' = NoReturn
        /\ UNCHANGED <<procs, indexed>>

\* ProblemEndpoint.sync_instance_index(session), run on its own
SyncInstanceIndex ==
    \E order1 \in Orders(get_instance_uids(index) \ get_all_instance_uids(files)) :
    \E order2 \in Orders(get_all_instance_uids(files) \ get_instance_uids(index)) :
        LET res == sync_instance_index(files, Db, order1, order2)
        IN  /\ index' = res.db.index
            /\ bounds' = res.db.bounds
            /\ indexed' = res.db.indexed
            /\ last' = Done("sync_instance_index", <<>>, FALSE, FALSE, res.outcome)
            /\ ret' = NoReturn
            /\ UNCHANGED <<procs, files, assets, solFiles, solIndex>>

\* AssetRepository.add(asset_class, instance_uid, asset)
AddAsset(asset_class, instance_uid) ==
    LET res == asset_add(assets, asset_class, instance_uid)
    IN  /\ assets' = res.store
        /\ last' = Done("add_asset", [asset_class |-> asset_class, uid |-> instance_uid],
                        <<asset_class, PurePath(instance_uid)>> \in assets, FALSE,
                        res.outcome)
        /\ ret' = NoReturn
        /\ UNCHANGED <<procs, files, index, bounds, solFiles, solIndex, indexed>>

\* AssetRepository.delete_assets(instance_uid)
DeleteAssets(instance_uid) ==
    LET res == delete_assets(assets, instance_uid)
    IN  /\ assets' = res.store
        /\ last' = Done("delete_assets", [uid |-> instance_uid],
                        \E c \in ASSETS : <<c, PurePath(instance_uid)>> \in assets, FALSE,
                        res.outcome)
        /\ ret' = NoReturn
        /\ UNCHANGED <<procs, files, index, bounds, solFiles, solIndex, indexed>>

\* InstanceRepository.exists(instance_uid)
RepoExists(instance_uid) ==
    /\ last' = Done("exists", [uid |-> instance_uid], fs_exists(files, instance_uid),
                    index_exists(index, instance_uid), repo_exists_outcome(instance_uid))
    /\ ret' = IF repo_exists_outcome(instance_uid) = "ok"
              THEN fs_exists(files, instance_uid) ELSE NoReturn
    /\ UNCHANGED <<procs, files, index, bounds, assets, solFiles, solIndex, indexed>>

\* check_uid_pattern(instance_uid, fail) called on its own
CheckUidPattern(uid, fail) ==
    /\ last' = Done("check_uid_pattern", [uid |-> uid, fail |-> fail], FALSE, FALSE,
                    check_uid_pattern_outcome(uid, fail))
    /\ ret' = IF check_uid_pattern_outcome(uid, fail) = "ok"
              THEN check_uid_pattern(uid) ELSE NoReturn
    /\ UNCHANGED <<procs, files, index, bounds, assets, solFiles, solIndex, indexed>>

----------------------------------------------------------------------------
(* LocalFileSystemWithCompression.save and load, statement by statement, as
   run by concurrent callers; each caller makes one call *)

\* the file right after lzma.open(path, "wt"): created or truncated, empty
TruncatedFile == <<>>

\* save, up to the test of path.exists()
SaveCheck(p, instance, exists_ok) ==
    /\ procs[p].pc = "idle"
    /\ procs' = [procs EXCEPT ![p] =
            [pc |-> IF fs_exists(files, instance[uid_attribute]) /\ ~exists_ok
                    THEN "done" ELSE "save_open",
             op |-> "save", uid |-> instance[uid_attribute],
             txt |-> model_dump_json(INSTANCE_SCHEMA, instance),
             exists_ok |-> exists_ok,
             outcome |-> IF fs_exists(files, instance[uid_attribute]) /\ ~exists_ok
                         THEN "ValueError:exists" ELSE "none",
             result |-> NoReturn]]
    /\ UNCHANGED <<files, index, bounds, assets, solFiles, solIndex, indexed, last, ret>>

\* save: lzma.open(path, "wt") creates the file or truncates it
SaveOpen(p) ==
    /\ procs[p].pc = "save_open"
    /\ files' = StorePut(files, PathOf(procs[p].uid), TruncatedFile)
    /\ procs' = [procs EXCEPT ![p].pc = "save_write"]
    /\ UNCHANGED <<index, bounds, assets, solFiles, solIndex, indexed, last, ret>>

\* save: file.write(data.model_dump_json()) and the close that flushes it
SaveWrite(p) ==
    /\ procs[p].pc = "save_write"
    /\ files' = StorePut(files, PathOf(procs[p].uid), procs[p].txt)
    /\ procs' = [procs EXCEPT ![p].pc = "done", ![p].outcome = "ok"]
    /\ UNCHANGED <<index, bounds, assets, solFiles, solIndex, indexed, last, ret>>

\* load, up to the test of path.exists()
LoadCheck(p, uid) ==
    /\ procs[p].pc = "idle"
    /\ procs' = [procs EXCEPT ![p] =
            [pc |-> IF fs_exists(files, uid) THEN "load_read" ELSE "done",
             op |-> "load", uid |-> uid, txt |-> <<>>, exists_ok |-> FALSE,
             outcome |-> IF fs_exists(files, uid) THEN "none" ELSE "KeyError",
             result |-> NoReturn]]
    /\ UNCHANGED <<files, index, bounds, assets, solFiles, solIndex, indexed, last, ret>>

\* what lzma.open(path, "rt"), file.read() and model_validate_json end in:
\* reading a file that holds no complete compressed stream raises EOFError
load_read_outcome(store, schema, uid) ==
    IF ~fs_exists(store, uid) THEN "FileNotFoundError"
    ELSE IF store[PathOf(uid)] = TruncatedFile THEN "EOFError"
    ELSE fs_load_outcome(store, schema, uid)

\* load: open the file, read it and validate the text
LoadRead(p) ==
    /\ procs[p].pc = "load_read"
    /\ procs' = [procs EXCEPT
            ![p].pc = "done",
            ![p].outcome = load_read_outcome(files, INSTANCE_SCHEMA, procs[p].uid),
            ![p].result = IF load_read_outcome(files, INSTANCE_SCHEMA, procs[p].uid) = "ok"
                          THEN fs_load(files, INSTANCE_SCHEMA, procs[p].uid)
                          ELSE NoReturn]
    /\ UNCHANGED <<files, index, bounds, assets, solFiles, solIndex, indexed, last, ret>>

\* RangeQueryBounds.update(val) on the bounds object of a field, which has
\* min_val = max_val = None until its first finite value
BoundsUpdate(field_name, val) ==
    LET row == IF field_name \in DOMAIN bounds THEN bounds[field_name] ELSE NoBounds
    IN  /\ bounds' = TablePut(bounds, field_name, bounds_update(row, val).row)
        /\ last' = Done("bounds_update", [field_name |-> field_name, val |-> val,
                                          row |-> row], FALSE, FALSE, "ok")
        /\ ret' = bounds_update(row, val).changed
        /\ UNCHANGED <<procs, files, index, assets, solFiles, solIndex, indexed>>

\* GET /instance_info/{instance_uid}: the row, or 404 when there is none
GetInstanceInfo(instance_uid) ==
    /\ last' = Done("get_instance_info", [uid |-> instance_uid],
                    fs_exists(files, instance_uid), index_exists(index, instance_uid),
                    IF index_exists(index, instance_uid) THEN "ok" ELSE "HTTP404")
    /\ ret' = IF index_exists(index, instance_uid) THEN index[instance_uid] ELSE NoReturn
    /\ UNCHANGED <<procs, files, index, bounds, assets, solFiles, solIndex, indexed>>

----------------------------------------------------------------------------
(* The two instance handlers step by step: a request handler p that has
   done its first call and not yet the rest, and its interruption *)

\* POST /instances, first call: write_instance; an exception ends the request
CreateInstanceWrite(p, instance) ==
    LET written == write_instance(files, instance, FALSE)
    IN  /\ procs[p].pc = "idle"
        /\ files' = written.store
        /\ procs' = IF written.outcome = "ok"
                     THEN [procs EXCEPT ![p] = [IdleCaller EXCEPT
                                !.pc = "create:written", !.op = "create_instance",
                                !.uid = instance[uid_attribute], !.result = instance]]
                     ELSE procs
        /\ last' = Done("create_instance:write_instance", [instance |-> instance],
                        fs_exists(files, instance[uid_attribute]),
                        index_exists(index, instance[uid_attribute]), written.outcome)
        /\ ret' = NoReturn
        /\ UNCHANGED <<index, bounds, assets, solFiles, solIndex, indexed>>

\* POST /instances, second call: index_instance
CreateInstanceIndex(p) ==
    LET db == index_instance(Db, procs[p].result)
    IN  /\ procs[p].pc = "create:written"
        /\ index' = db.index
        /\ bounds' = db.bounds
        /\ indexed' = db.indexed
        /\ procs' = [procs EXCEPT ![p] = IdleCaller]
        /\ last' = Done("create_instance:index_instance", [instance |-> procs[p].result],
                        fs_exists(files, procs[p].uid),
                        index_exists(index, procs[p].uid), "ok")
        /\ ret' = NoReturn
        /\ UNCHANGED <<files, assets, solFiles, solIndex>>

\* DELETE /instances/{instance_uid}, first call: instance_repository.delete_instance
DeleteInstanceRemove(p, instance_uid) ==
    LET deleted == repo_delete_instance(files, instance_uid)
    IN  /\ procs[p].pc = "idle"
        /\ files' = deleted.store
        /\ procs' = IF deleted.outcome = "ok"
                     THEN [procs EXCEPT ![p] = [IdleCaller EXCEPT
                                !.pc = "delete:removed", !.op = "delete_instance",
                                !.uid = instance_uid]]
                     ELSE procs
        /\ last' = Done("delete_instance:delete_instance", [uid |-> instance_uid],
                        fs_exists(files, instance_uid),
                        index_exists(index, instance_uid), deleted.outcome)
        /\ ret' = NoReturn
        /\ UNCHANGED <<index, bounds, assets, solFiles, solIndex, indexed>>

\* DELETE /instances/{instance_uid}, the remaining calls: the row, the assets,
\* the solution rows and the solution files
DeleteInstanceCascade(p) ==
    LET instance_uid == procs[p].uid
    IN  /\ procs[p].pc = "delete:removed"
        /\ index' = deindex_instance(Db, instance_uid).index
        /\ bounds' = deindex_instance(Db, instance_uid).bounds
        /\ assets' = delete_assets(assets, instance_uid).store
        /\ solIndex' = deindex_all_solutions_of_instance(solIndex, instance_uid)
        /\ \E order \in Orders(list_solution_uids_of_instance(solFiles, instance_uid)) :
                solFiles' = delete_each_solution(solFiles, order)
        /\ procs' = [procs EXCEPT ![p] = IdleCaller]
        /\ last' = Done("delete_instance:deindex_instance", [uid |-> instance_uid],
                        fs_exists(files, instance_uid),
                        index_exists(index, instance_uid), "ok")
        /\ ret' = NoReturn
        /\ UNCHANGED <<files, indexed>>

\* the process serving request p dies between the first call and the rest
Interrupt(p) ==
    /\ procs[p].pc # "idle"
    /\ procs' = [procs EXCEPT ![p] = IdleCaller]
    /\ last' = Done("interrupt", [op |-> procs[p].op, uid |-> procs[p].uid],
                    fs_exists(files, procs[p].uid), index_exists(index, procs[p].uid),
                    "ok")
    /\ ret' = NoReturn
    /\ UNCHANGED <<files, index, bounds, assets, solFiles, solIndex, indexed>>

\* server.sync.sync at start-up: the pass runs while no request is served
Reconcile ==
    /\ \A p \in Callers : procs[p].pc = "idle"
    /\ SyncInstanceIndex

\* InstanceIndex(problem_info) for a catalog descriptor and a record schema
RegisterCatalog(info, schema_fields) ==
    /\ last' = Done("register", [info |-> info, schema_fields |-> schema_fields],
                    FALSE, FALSE, instance_index_init_outcome(info, schema_fields))
    /\ ret' = NoReturn
    /\ UNCHANGED <<procs, files, index, bounds, assets, solFiles, solIndex, indexed>>

----------------------------------------------------------------------------
(* Operations of the solution repository and the solution index *)

\* SolutionRepository.write_solution(solution), overwrite left at its default
WriteSolution(solution) ==
    LET res == write_solution(solFiles, solution, TRUE)
    IN  /\ solFiles' = res.store
        /\ last' = Done("write_solution", [solution |-> solution],
                        fs_exists(solFiles, solution_uid_of(solution)),
                        solution_index_exists(solIndex, solution_uid_of(solution)),
                        res.outcome)
        /\ ret' = IF res.outcome = "ok" THEN res.uid ELSE NoReturn
        /\ UNCHANGED <<procs, files, index, bounds, assets, solIndex, indexed>>

\* SolutionRepository.delete_solution(solution_uid)
RepoDeleteSolution(solution_uid) ==
    LET res == repo_delete_solution(solFiles, solution_uid)
    IN  /\ solFiles' = res.store
        /\ last' = Done("repo_delete_solution", [uid |-> solution_uid],
                        fs_exists(solFiles, solution_uid),
                        solution_index_exists(solIndex, solution_uid), res.outcome)
        /\ ret' = NoReturn
        /\ UNCHANGED <<procs, files, index, bounds, assets, solIndex, indexed>>

\* create_solution without the lookup in the instance index
create_solution_unchecked(instance_table, store, table, solution) ==
    LET written == write_solution(store, solution, TRUE)
        added == IF written.outcome = "ok"
                 THEN index_solution(table, written.uid, solution)
                 ELSE [outcome |-> written.outcome, table |-> table]
    IN  [outcome |-> added.outcome, store |-> written.store, table |-> added.table]

\* create_solution: 404 unless the instance has a row, then write_solution
\* and index_solution; the outcome, the solution files and the solution rows
create_solution(instance_table, store, table, solution) ==
    LET found == index_exists(instance_table, solution[uid_attribute])
        written == IF found THEN write_solution(store, solution, TRUE)
                   ELSE [outcome |-> "HTTP404", uid |-> <<>>, store |-> store]
        added == IF written.outcome = "ok"
                 THEN index_solution(table, written.uid, solution)
                 ELSE [outcome |-> written.outcome, table |-> table]
    IN  [outcome |-> added.outcome, store |-> written.store, table |-> added.table]

\* POST /solutions: the instance must be indexed; write_solution, then
\* index_solution
CreateSolution(solution) ==
    LET created == create_solution(index, solFiles, solIndex, solution)
    IN  /\ solFiles' = created.store
        /\ solIndex' = created.table
        /\ last' = Done("create_solution", [solution |-> solution],
                        fs_exists(solFiles, solution_uid_of(solution)),
                        solution_index_exists(solIndex, solution_uid_of(solution)),
                        created.outcome)
        /\ ret' = NoReturn
        /\ UNCHANGED <<procs, files, index, bounds, assets, indexed>>

\* DELETE /solutions/{solution_uid}: delete_solution, then deindex_solution
DeleteSolution(solution_uid) ==
    LET deleted == repo_delete_solution(solFiles, solution_uid)
        removed == IF deleted.outcome = "ok" THEN deindex_solution(solIndex, solution_uid)
                   ELSE [outcome |-> deleted.outcome, table |-> solIndex]
    IN  /\ solFiles' = deleted.store
        /\ solIndex' = removed.table
        /\ last' = Done("delete_solution", [uid |-> solution_uid],
                        fs_exists(solFiles, solution_uid),
                        solution_index_exists(solIndex, solution_uid), removed.outcome)
        /\ ret' = NoReturn
        /\ UNCHANGED <<procs, files, index, bounds, assets, indexed>>

\* ProblemEndpoint.sync_solution_index(session), run on its own
SyncSolutionIndex ==
    \E order \in Orders(list_all_solution_uids(solFiles)) :
        LET res == sync_solution_index(solFiles, solIndex, order)
        IN  /\ solIndex' = res.table
            /\ last' = Done("sync_solution_index", <<>>, FALSE, FALSE, res.outcome)
            /\ ret' = NoReturn
            /\ UNCHANGED <<procs, files, index, bounds, assets, solFiles, indexed>>

\* ProblemEndpoint.sync(session): the instance pass, then the solution pass;
\* an exception of the first pass ends the call
Sync ==
    \E order1 \in Orders(get_instance_uids(index) \ get_all_instance_uids(files)) :
    \E order2 \in Orders(get_all_instance_uids(files) \ get_instance_uids(index)) :
    \E order \in Orders(list_all_solution_uids(solFiles)) :
        LET first == sync_instance_index(files, Db, order1, order2)
            second == IF first.outcome = "ok"
                      THEN sync_solution_index(solFiles, solIndex, order)
                      ELSE [outcome |-> first.outcome, table |-> solIndex]
        IN  /\ index' = first.db.index
            /\ bounds' = first.db.bounds
            /\ indexed' = first.db.indexed
            /\ solIndex' = second.table
            /\ last' = Done("sync", <<>>, FALSE, FALSE, second.outcome)
            /\ ret' = NoReturn
            /\ UNCHANGED <<procs, files, assets, solFiles>>

\* GET /instance_info: InstanceIndex.query(query, session)
Query(q) ==
    /\ last' = Done("query", q, FALSE, FALSE, query_outcome(q))
    /\ IF query_outcome(q) = "ok"
       THEN \E keys \in Orders({k \in DOMAIN index : query_filter(index[k], q)}) :
                /\ query_ordered(index, q, keys)
                /\ ret' = query(index, q, keys)
       ELSE ret' = NoReturn
    /\ UNCHANGED <<procs, files, index, bounds, assets, solFiles, solIndex, indexed>>

----------------------------------------------------------------------------
(* Spec: the instance handlers and the reconciliation pass of one catalog,
   on records with finite field values and well-formed identifiers *)

FiniteInstances ==
    {r \in Instances : /\ r[uid_attribute] \in ValidUids
                       /\ isfinite(r.weight_capacity_ratio)
                       /\ r.integral = FALSE}

Next ==
    \/ \E r \in FiniteInstances : CreateInstance(r)
    \/ \E u \in Uids : DeleteInstance(u)
    \/ \E u \in Uids : RepoDeleteInstance(u)
    \/ \E u \in Uids : DeindexInstance(u)
    \/ \E c \in ASSETS : AddAsset(c, UidA)
    \/ SyncInstanceIndex

Spec == Init /\ [][Next]_vars

----------------------------------------------------------------------------
(* SpecRepository: the instance repository on its own, on every record *)

NextRepository ==
    \/ \E r \in Instances, overwrite \in BOOLEAN : WriteInstance(r, overwrite)
    \/ \E u \in Uids : ReadInstance(u)
    \/ \E u \in Uids : RepoDeleteInstance(u)

SpecRepository == Init /\ [][NextRepository]_vars

----------------------------------------------------------------------------
(* SpecIndex: the instance index and its bounds table on their own *)

IndexedInstances == {r \in Instances : r.integral = FALSE}

NextIndex ==
    \/ \E r \in IndexedInstances : IndexInstance(r)
    \/ \E u \in Uids : DeindexInstance(u)

SpecIndex == Init /\ [][NextIndex]_vars

----------------------------------------------------------------------------
(* SpecSolutions: the solution handlers and the reconciliation pass of the
   solution index, over a few indexed instances *)

SolutionInstanceUids == {UidA, UidAB, UidLeadingSlash}

SubmittedSolutions == {s \in Solutions : s[uid_attribute] \in SolutionInstanceUids}

SolutionUids == {solution_uid_of(s) : s \in SubmittedSolutions}

SolvedInstances ==
    {r \in FiniteInstances : /\ r[uid_attribute] \in SolutionInstanceUids
                             /\ r.weight_capacity_ratio = 1}

NextSolutions ==
    \/ \E r \in SolvedInstances : IndexInstance(r)
    \/ \E s \in SubmittedSolutions : WriteSolution(s)
    \/ \E u \in SolutionUids : RepoDeleteSolution(u)
    \/ \E s \in SubmittedSolutions : CreateSolution(s)
    \/ \E u \in SolutionUids : DeleteSolution(u)
    \/ SyncSolutionIndex

SpecSolutions == Init /\ [][NextSolutions]_vars

----------------------------------------------------------------------------
(* SpecQuery: queries against an index filled by index_instance *)

QueriedUids == {UidA, UidAB}

QueriedInstances == {r \in Instances : /\ r[uid_attribute] \in QueriedUids
                                       /\ isfinite(r.weight_capacity_ratio)
                                       /\ r.integral = (r.weight_capacity_ratio = 1)}

SearchStrings == {<<"a">>, <<"b">>, <<"_">>, <<"A">>}

Optional(S) == {{}} \cup {{x} : x \in S}

Queries ==
    [weight_capacity_ratio__geq : Optional({2}),
     weight_capacity_ratio__leq : Optional({1, 2}),
     integral : Optional({TRUE}),
     search : Optional(SearchStrings),
     sort_by : Optional({<<"weight_capacity_ratio">>, <<"-", "weight_capacity_ratio">>}),
     offset : 0..MaxOffset,
     limit : 1..MaxLimit]

NextQuery ==
    \/ \E r \in QueriedInstances : IndexInstance(r)
    \/ \E u \in QueriedUids : DeindexInstance(u)
    \/ \E q \in Queries : Query(q)

SpecQuery == Init /\ [][NextQuery]_vars

----------------------------------------------------------------------------
(* SpecPage: sorting and pagination of query, on requests without a search
   string; offset and limit are plain integers of the query schema *)

SortByValues ==
    {<<"weight_capacity_ratio">>, <<"-", "weight_capacity_ratio">>,
     <<"integral">>, <<"-", "integral">>, <<"nonexistent">>, <<"-", "nonexistent">>}

PageQueries ==
    [weight_capacity_ratio__geq : Optional({2}),
     weight_capacity_ratio__leq : {{}},
     integral : {{}},
     search : {{}},
     sort_by : Optional(SortByValues),
     offset : 0..MaxOffset,
     limit : (-1)..MaxLimit]

NextPage ==
    \/ \E r \in QueriedInstances : IndexInstance(r)
    \/ \E u \in QueriedUids : DeindexInstance(u)
    \/ \E q \in PageQueries : Query(q)

SpecPage == Init /\ [][NextPage]_vars

----------------------------------------------------------------------------
(* SpecIdentifiers: the repositories and the instance index called with a
   well-formed, an ill-formed and the empty identifier *)

EmptyUid == <<>>

IdentifierUids == {EmptyUid, UidA, UidLeadingSlash}

IdentifierInstances ==
    [instance_uid : IdentifierUids, weight_capacity_ratio : {1},
     integral : {FALSE}, capacity : Capacities]

IdentifierSolutions == [instance_uid : IdentifierUids, objective : {1}]

IdentifierSolutionUids ==
    {solution_uid_of(s) : s \in IdentifierSolutions} \cup {UidLeadingSlash}

NextIdentifiers ==
    \/ \E u \in IdentifierUids : RepoExists(u)
    \/ \E u \in IdentifierUids : ReadInstance(u)
    \/ \E r \in IdentifierInstances : WriteInstance(r, FALSE)
    \/ \E u \in IdentifierUids : RepoDeleteInstance(u)
    \/ \E r \in IdentifierInstances : IndexInstance(r)
    \/ \E u \in IdentifierUids : DeindexInstance(u)
    \/ \E c \in ASSETS, u \in IdentifierUids : AddAsset(c, u)
    \/ \E u \in IdentifierUids : DeleteAssets(u)
    \/ \E s \in IdentifierSolutions : WriteSolution(s)
    \/ \E u \in IdentifierSolutionUids : RepoDeleteSolution(u)

SpecIdentifiers == Init /\ [][NextIdentifiers]_vars

----------------------------------------------------------------------------
(* SpecRace: two callers of the instance file store, each making one save
   or load call for the same UID on a store that starts empty *)

RaceInstances == {r \in FiniteInstances : r[uid_attribute] = UidA}

NextRace ==
    \/ \E p \in Callers, r \in RaceInstances, exists_ok \in BOOLEAN :
            SaveCheck(p, r, exists_ok)
    \/ \E p \in Callers : SaveOpen(p)
    \/ \E p \in Callers : SaveWrite(p)
    \/ \E p \in Callers : LoadCheck(p, UidA)
    \/ \E p \in Callers : LoadRead(p)

SpecRace == Init /\ [][NextRace]_vars

----------------------------------------------------------------------------
(* SpecCascade: instances a and a/b with their assets and solutions, the
   handlers that create and delete them, removal of instance files behind
   the service's back, and the reconciliation of both indexes *)

CascadeUids == {UidA, UidAB}

CascadeInstances == {r \in SolvedInstances : r[uid_attribute] \in CascadeUids}

CascadeSolutions ==
    {s \in Solutions : s[uid_attribute] \in CascadeUids /\ s.objective = 1}

NextCascade ==
    \/ \E r \in CascadeInstances : CreateInstance(r)
    \/ \E u \in CascadeUids : DeleteInstance(u)
    \/ \E u \in CascadeUids : RepoDeleteInstance(u)
    \/ \E s \in CascadeSolutions : CreateSolution(s)
    \/ \E s \in CascadeSolutions : DeleteSolution(solution_uid_of(s))
    \/ \E c \in ASSETS, u \in CascadeUids : AddAsset(c, u)
    \/ Sync

SpecCascade == Init /\ [][NextCascade]_vars

----------------------------------------------------------------------------
(* SpecBounds: one bounds object receives a sequence of values *)

TrackedValues == (0..MaxTracked) \cup {INF}

NextBounds == \E v \in TrackedValues : BoundsUpdate(RANGE_FILTERS[1], v)

SpecBounds == Init /\ [][NextBounds]_vars

----------------------------------------------------------------------------
(* SpecCrash: one request handler that can die between its two steps, with
   content reads, metadata reads, queries and the start-up reconciliation *)

CrashUids == {UidA, UidAB}

CrashInstances == {r \in FiniteInstances : r[uid_attribute] \in CrashUids}

CrashQueries ==
    {q \in Queries : /\ q.weight_capacity_ratio__geq = {}
                     /\ q.weight_capacity_ratio__leq = {}
                     /\ q.integral = {} /\ q.search = {} /\ q.sort_by = {}
                     /\ q.offset = 0 /\ q.limit = MaxLimit}

NextCrash ==
    \/ \E r \in CrashInstances : CreateInstanceWrite(1, r)
    \/ CreateInstanceIndex(1)
    \/ \E u \in CrashUids : DeleteInstanceRemove(1, u)
    \/ DeleteInstanceCascade(1)
    \/ Interrupt(1)
    \/ \E u \in CrashUids : ReadInstance(u)
    \/ \E u \in CrashUids : GetInstanceInfo(u)
    \/ \E q \in CrashQueries : Query(q)
    \/ Reconcile

SpecCrash == Init /\ [][NextCrash]_vars

----------------------------------------------------------------------------
(* SpecRegistration: catalogs are registered whose descriptor declares at
   most one field of each kind, for a record schema that has fields called
   limit and search *)

RegisteredSchema ==
    {"instance_uid", "weight_capacity_ratio", "integral", "limit", "search"}

DeclaredNames == {"weight_capacity_ratio", "integral", "limit", "search", "missing"}

FieldLists == {<<>>} \cup {<<f>> : f \in DeclaredNames}

CatalogInfos ==
    [range_filters : FieldLists, boolean_filters : FieldLists,
     sort_fields : FieldLists, display_fields : FieldLists]

NextRegistration == \E info \in CatalogInfos : RegisterCatalog(info, RegisteredSchema)

SpecRegistration == Init /\ [][NextRegistration]_vars

----------------------------------------------------------------------------
(* SpecValidator: the identifier check applied to every string of at most
   MaxUidLen characters over a small alphabet *)

UidAlphabet == {"a", "A", "0", "-", "_", "/", ".", "U+00E9", "U+00BD"}

UidStrings == UNION {[1..n -> UidAlphabet] : n \in 0..MaxUidLen}

NextValidator == \E uid \in UidStrings, fail \in BOOLEAN : CheckUidPattern(uid, fail)

SpecValidator == Init /\ [][NextValidator]_vars

----------------------------------------------------------------------------
(* Properties of the reconciliation pass of the instance index *)

\* C1: once a reconciliation pass of the instance index has run on its own,
\* the UIDs of the index rows are exactly the UIDs of the stored instance
\* files.
C1_ReconciliationConverges ==
    last.op = "sync_instance_index" =>
        get_instance_uids(index) = get_all_instance_uids(files)

----------------------------------------------------------------------------
(* Properties of the instance repository *)

\* C3: when write_instance has stored a record under a UID that had no
\* file, read_instance of that UID succeeds and returns an equal record.
C3_WriteReadRoundTrip ==
    (last.op = "write_instance" /\ last.outcome = "ok" /\ ~last.had_file) =>
        /\ read_instance_outcome(files, last.arg.instance[uid_attribute]) = "ok"
        /\ read_instance(files, last.arg.instance[uid_attribute]) = last.arg.instance

\* C4: a write_instance whose target file exists fails without overwrite
\* permission and leaves every stored file as it was; with overwrite
\* permission it succeeds, the file holds the new text and the set of
\* stored paths is the same.
C4_CreateOrFail ==
    [][ (last'.op = "write_instance" /\ last'.had_file) =>
            IF last'.arg.overwrite
            THEN /\ last'.outcome = "ok"
                 /\ DOMAIN files' = DOMAIN files
                 /\ files'[PathOf(last'.arg.instance[uid_attribute])]
                        = model_dump_json(INSTANCE_SCHEMA, last'.arg.instance)
            ELSE /\ last'.outcome = "ValueError:exists"
                 /\ files' = files ]_vars

\* a write without overwrite permission has just been refused for a stored UID
C4_Witness ==
    /\ last.op = "write_instance"
    /\ last.had_file
    /\ ~last.arg.overwrite
    /\ last.outcome = "ValueError:exists"
    /\ fs_exists(files, last.arg.instance[uid_attribute])

----------------------------------------------------------------------------
(* Properties of the range bounds *)

C7Envelope ==
    \A f \in Range(RANGE_FILTERS) : \A v \in indexed[f] :
        /\ f \in DOMAIN bounds
        /\ bounds[f].min_val # None
        /\ bounds[f].max_val # None
        /\ bounds[f].min_val <= v
        /\ v <= bounds[f].max_val

C7Width ==
    \A f \in DOMAIN bounds :
        (bounds[f].min_val # None /\ bounds[f].max_val # None) =>
            /\ f \in DOMAIN bounds'
            /\ bounds'[f].min_val # None
            /\ bounds'[f].max_val # None
            /\ bounds'[f].max_val - bounds'[f].min_val
                    >= bounds[f].max_val - bounds[f].min_val

\* C7: after every index operation the persisted bounds of each range field
\* enclose every finite value indexed so far for it, and no step makes
\* max_val - min_val smaller.
C7_BoundsEnvelope == [][C7Envelope' /\ C7Width]_vars

\* two different finite values have been indexed and the bounds span them
C7_Witness ==
    \E f \in Range(RANGE_FILTERS) :
        /\ Cardinality(indexed[f]) >= 2
        /\ f \in DOMAIN bounds
        /\ bounds[f].min_val < bounds[f].max_val
        /\ last.op = "index_instance"

\* C8: deindex_instance, the delete-instance handler and a reconciliation
\* pass that only has rows to deindex leave the bounds table as it was.
C8_BoundsNeverNarrowed ==
    [][ ( \/ last'.op \in {"deindex_instance", "delete_instance"}
          \/ /\ last'.op = "sync_instance_index"
             /\ get_all_instance_uids(files) \subseteq get_instance_uids(index) )
        => bounds' = bounds ]_vars

\* the delete handler has removed a row and no remaining row attains min_val
C8_Witness ==
    /\ last.op = "delete_instance"
    /\ last.had_row
    /\ \E f \in DOMAIN bounds :
        /\ bounds[f].min_val # None
        /\ \A k \in DOMAIN index : index[k][f] > bounds[f].min_val

----------------------------------------------------------------------------
(* Properties of index_instance *)

\* C9: after index_instance(record) the table holds, under the record's
\* UID, the projection of that record, whether or not a row was there.
C9_IndexIsUpsert ==
    last.op = "index_instance" =>
        /\ last.arg.instance[uid_attribute] \in DOMAIN index
        /\ index[last.arg.instance[uid_attribute]]
                = get_instance_info_from_data(last.arg.instance)

----------------------------------------------------------------------------
(* Properties of the solution side *)

\* C2: once a reconciliation pass of the solution index has run on its own,
\* the UIDs of the solution index rows are exactly the UIDs of the stored
\* solution files.
C2_SolutionReconciliationTwoWay ==
    last.op = "sync_solution_index" =>
        DOMAIN solIndex = list_all_solution_uids(solFiles)

\* C5: a write_solution that directly follows a successful write_solution
\* of the same payload succeeds, returns the same UID
\* <instance_uid>/<hash>, and leaves the set of stored solution files as
\* the first write left it.
C5_SolutionContentAddressing ==
    [][ ( /\ last.op = "write_solution"
          /\ last.outcome = "ok"
          /\ last'.op = "write_solution"
          /\ last'.arg = last.arg )
        => /\ last'.outcome = "ok"
           /\ ret' = ret
           /\ ret' = last.arg.solution[uid_attribute] \o <<"/">>
                        \o md5_hexdigest(model_dump_json(SOLUTION_SCHEMA, last.arg.solution))
           /\ DOMAIN solFiles' = DOMAIN solFiles
           /\ fs_exists(solFiles', ret') ]_vars

\* a payload has been written over its own, already stored file
C5_Witness ==
    /\ last.op = "write_solution"
    /\ last.outcome = "ok"
    /\ last.had_file
    /\ ret \in DOMAIN solFiles

\* C6: a create-solution that directly follows a successful create-solution
\* of the same payload succeeds as well, and the payload has one stored
\* file and one index row.
C6_ResubmissionIdempotent ==
    [][ ( /\ last.op = "create_solution"
          /\ last.outcome = "ok"
          /\ last'.op = "create_solution"
          /\ last'.arg = last.arg )
        => /\ last'.outcome = "ok"
           /\ solFiles' = solFiles
           /\ solIndex' = solIndex ]_vars

----------------------------------------------------------------------------
(* Properties of query *)

\* whether s occurs in t as a run of consecutive characters
IsSubstring(s, t) ==
    \E i \in 0..(Len(t) - Len(s)) : SubSeq(t, i + 1, i + Len(s)) = s

\* the filters of a query as the catalog states them
Satisfies(row, q) ==
    /\ \A f \in Range(RANGE_FILTERS) :
        /\ Present(q[POSTFIX_QUERY_GEQ[f]]) => row[f] >= ValueOf(q[POSTFIX_QUERY_GEQ[f]])
        /\ Present(q[POSTFIX_QUERY_LEQ[f]]) => row[f] <= ValueOf(q[POSTFIX_QUERY_LEQ[f]])
    /\ \A f \in Range(BOOLEAN_FILTERS) :
        Present(q[f]) => row[f] = ValueOf(q[f])
    /\ Present(q.search) => IsSubstring(ValueOf(q.search), row[uid_attribute])

\* C10: the total of a query response is the number of index rows that
\* satisfy every present filter (inclusive range bounds, boolean equality,
\* UID containing the search string), whatever offset and limit are.
C10_TotalIndependentOfPagination ==
    (last.op = "query" /\ last.outcome = "ok") =>
        ret.total = Cardinality({k \in DOMAIN index : Satisfies(index[k], last.arg)})

----------------------------------------------------------------------------
(* Properties of the page a query returns *)

Maximum(a, b) == IF a >= b THEN a ELSE b

\* C11: the items of a query response are the rows that satisfy the
\* filters, in an order the sort_by field allows (descending after a
\* leading "-", ascending otherwise), without the first offset rows and
\* with at most limit rows; an offset at or beyond total gives an empty
\* page, and total, offset and limit are reported as they are.
C11_PageConstruction ==
    (last.op = "query" /\ last.outcome = "ok") =>
        /\ ret.offset = last.arg.offset
        /\ ret.limit = last.arg.limit
        /\ ret.total = Cardinality({k \in DOMAIN index : Satisfies(index[k], last.arg)})
        /\ Len(ret.items) <= Maximum(last.arg.limit, 0)
        /\ last.arg.offset >= ret.total => ret.items = <<>>
        /\ \E keys \in Orders({k \in DOMAIN index : Satisfies(index[k], last.arg)}) :
            /\ query_ordered(index, last.arg, keys)
            /\ Len(ret.items) = Minimum(Maximum(last.arg.limit, 0),
                                        Len(keys) - Minimum(last.arg.offset, Len(keys)))
            /\ \A i \in DOMAIN ret.items :
                    ret.items[i] = index[keys[last.arg.offset + i]]

\* C12: a query whose sort_by names no sortable field of the catalog ends in
\* an error and returns no page.
C12_UnknownSortRejected ==
    ( /\ last.op = "query"
      /\ Present(last.arg.sort_by)
      /\ sort_field(ValueOf(last.arg.sort_by)) \notin Range(SORT_FIELDS) )
    => (last.outcome # "ok" /\ ret = NoReturn)

----------------------------------------------------------------------------
(* Properties of the identifier check *)

Letters == {"a", "b", "A", "U+00E9"}

Digits == {"0", "1", "2", "3", "4", "5", "6", "7", "8", "9"}

\* the grammar of identifiers: letters, digits, "-", "_" and "/", no "/" at
\* either end
GrammarValid(s) ==
    /\ \A i \in DOMAIN s : s[i] \in Letters \cup Digits \cup {"-", "_", "/"}
    /\ ~(s # <<>> /\ s[1] = "/")
    /\ ~(s # <<>> /\ s[Len(s)] = "/")

\* C13: check_uid_pattern(s, fail=False) returns true exactly when s follows
\* the grammar of identifiers, and check_uid_pattern(s, fail=True) raises
\* exactly when s does not.
C13_ValidatorCharacterization ==
    last.op = "check_uid_pattern" =>
        IF last.arg.fail
        THEN (last.outcome = "ValueError:uid") <=> ~GrammarValid(last.arg.uid)
        ELSE last.outcome = "ok" /\ (ret <=> GrammarValid(last.arg.uid))

\* C14: the identifier check rejects the empty string: it returns false
\* without fail and raises with fail.
C14_EmptyStringRejected ==
    (last.op = "check_uid_pattern" /\ last.arg.uid = <<>>) =>
        IF last.arg.fail THEN last.outcome = "ValueError:uid" ELSE ret = FALSE

----------------------------------------------------------------------------
(* Properties of the operations that take an identifier *)

\* the operations of the repositories and of the index that are handed a UID
UidOperations ==
    {"exists", "read_instance", "write_instance", "repo_delete_instance",
     "deindex_instance", "add_asset", "delete_assets", "write_solution",
     "repo_delete_solution"}

\* the UID an operation was called with
UidOf(l) ==
    IF l.op = "write_instance" THEN l.arg.instance[uid_attribute]
    ELSE IF l.op = "write_solution" THEN l.arg.solution[uid_attribute]
    ELSE l.arg.uid

\* C15: an operation of a repository or of the index that is called with a
\* UID outside the grammar raises the identifier error and leaves every file
\* and every index row as it was.
C15_InvalidIdentifierRejected ==
    [][ (last'.op \in UidOperations /\ ~check_uid_pattern(UidOf(last')))
        => /\ last'.outcome = "ValueError:uid"
           /\ UNCHANGED <<files, index, bounds, assets, solFiles, solIndex>> ]_vars

\* the path a file-store operation touches
TouchedPath(l) ==
    IF l.op = "write_solution" THEN PathOf(solution_uid_of(l.arg.solution))
    ELSE PathOf(UidOf(l))

FileStoreOperations ==
    {"exists", "read_instance", "write_instance", "repo_delete_instance",
     "write_solution", "repo_delete_solution"}

\* C16: no file of a store lies outside its root, and a file-store operation
\* whose path lies outside the root ends in an error.
C16_SandboxConfinement ==
    /\ \A path \in DOMAIN files \cup DOMAIN solFiles : is_relative_to_root(path)
    /\ (last.op \in FileStoreOperations /\ ~is_relative_to_root(TouchedPath(last)))
            => last.outcome # "ok"

----------------------------------------------------------------------------
(* Properties of removing what is not there *)

\* C17: InstanceRepository.delete_instance of a well-formed UID that has no
\* file, and deindex_instance of a UID that has no row, return normally and
\* leave the file store, the index and the bounds table as they were.
C17_RemovingAbsentIsNoOp ==
    [][ /\ ( /\ last'.op = "repo_delete_instance"
             /\ check_uid_pattern(last'.arg.uid)
             /\ ~last'.had_file )
            => (last'.outcome = "ok" /\ UNCHANGED <<files, index, bounds>>)
        /\ (last'.op = "deindex_instance" /\ ~last'.had_row)
            => (last'.outcome = "ok" /\ UNCHANGED <<files, index, bounds>>) ]_vars

\* delete_instance has just returned for a UID without a file while other
\* files and rows are stored
C17_Witness ==
    /\ last.op = "repo_delete_instance"
    /\ check_uid_pattern(last.arg.uid)
    /\ ~last.had_file
    /\ last.outcome = "ok"
    /\ DOMAIN files # {}
    /\ DOMAIN index # {}

----------------------------------------------------------------------------
(* Properties of read_instance *)

\* C18: read_instance(u) returns a record only when the UID inside the
\* loaded payload equals u and raises the mismatch error when it differs;
\* for a well-formed u without a file it raises the not-found error.
C18_MisfiledContentDetected ==
    last.op = "read_instance" =>
        /\ last.outcome = "ok" =>
                /\ fs_exists(files, last.arg.uid)
                /\ ret = fs_load(files, INSTANCE_SCHEMA, last.arg.uid)
                /\ ret[uid_attribute] = last.arg.uid
        /\ ( /\ check_uid_pattern(last.arg.uid)
             /\ fs_load_outcome(files, INSTANCE_SCHEMA, last.arg.uid) = "ok"
             /\ fs_load(files, INSTANCE_SCHEMA, last.arg.uid)[uid_attribute] # last.arg.uid )
            => (last.outcome = "ValueError:mismatch" /\ ret = NoReturn)
        /\ (check_uid_pattern(last.arg.uid) /\ ~fs_exists(files, last.arg.uid))
            => (last.outcome = "KeyError" /\ ret = NoReturn)

\* a read has just been refused because the file found under the UID holds
\* a record with another UID
C18_Witness ==
    /\ last.op = "read_instance"
    /\ last.had_file
    /\ last.outcome = "ValueError:mismatch"
    /\ fs_load(files, INSTANCE_SCHEMA, last.arg.uid)[uid_attribute] # last.arg.uid

----------------------------------------------------------------------------
(* Properties of concurrent calls of the file store *)

\* C19: of two save calls without overwrite permission that race for the
\* same UID, which had no file, at most one succeeds, the other raises the
\* already-exists error, and the stored file is the record of the one that
\* succeeded.
C19_RacingCreates ==
    \A p, q \in Callers :
        ( /\ p # q
          /\ procs[p].pc = "done" /\ procs[q].pc = "done"
          /\ procs[p].op = "save" /\ procs[q].op = "save"
          /\ ~procs[p].exists_ok /\ ~procs[q].exists_ok
          /\ procs[p].uid = procs[q].uid )
        => /\ ~(procs[p].outcome = "ok" /\ procs[q].outcome = "ok")
           /\ procs[p].outcome = "ok" =>
                /\ procs[q].outcome = "ValueError:exists"
                /\ files[PathOf(procs[p].uid)] = procs[p].txt

\* C20: a load that runs next to a save of the same UID ends with a
\* complete record, the previous or the new one, or with the not-found
\* error; it never reads a file that is not completely written.
C20_NoHalfWrittenFile ==
    \A p \in Callers :
        (procs[p].pc = "done" /\ procs[p].op = "load") =>
            \/ procs[p].outcome = "KeyError"
            \/ /\ procs[p].outcome = "ok"
               /\ procs[p].result \in RaceInstances

----------------------------------------------------------------------------
(* Properties of the index as a projection of the file store *)

\* C21: once a reconciliation pass of the instance index has run to its end,
\* the row of every UID that has both a row and a readable file equals the
\* projection of the record stored in that file.
C21_IndexRegenerable ==
    (last.op = "sync_instance_index" /\ last.outcome = "ok") =>
        \A u \in get_instance_uids(index) \cap get_all_instance_uids(files) :
            read_instance_outcome(files, u) = "ok" =>
                index[u] = get_instance_info_from_data(read_instance(files, u))

----------------------------------------------------------------------------
(* Properties of the window between the two steps of a handler *)

\* the UIDs with a file and no row, and the UIDs with a row and no file
Divergence ==
    [file_only |-> get_all_instance_uids(files) \ get_instance_uids(index),
     row_only |-> get_instance_uids(index) \ get_all_instance_uids(files)]

\* a handler between its steps, or just interrupted there
InWindow(op, uid) ==
    \/ \E p \in Callers : /\ procs[p].pc # "idle"
                           /\ procs[p].op = op /\ procs[p].uid = uid
    \/ last.op = "interrupt" /\ last.arg.op = op /\ last.arg.uid = uid

ReadOperations == {"read_instance", "get_instance_info", "query"}

----------------------------------------------------------------------------
(* Properties of RangeQueryBounds.update *)

\* C24: update(v) with a finite v on an object without bounds sets min_val
\* and max_val to v and returns true; on an object with bounds [min, max]
\* it sets min_val to v exactly when v < min, max_val to v exactly when
\* v > max, leaves both when min <= v <= max, and returns true exactly when
\* an endpoint moved.
C24_BoundsUpdateStep ==
    (last.op = "bounds_update" /\ isfinite(last.arg.val)) =>
        LET v == last.arg.val
            before == last.arg.row
            after == bounds[last.arg.field_name]
        IN  IF before = NoBounds
            THEN after.min_val = v /\ after.max_val = v /\ ret = TRUE
            ELSE /\ (v < before.min_val) => after.min_val = v
                 /\ ~(v < before.min_val) => after.min_val = before.min_val
                 /\ (v > before.max_val) => after.max_val = v
                 /\ ~(v > before.max_val) => after.max_val = before.max_val
                 /\ (before.min_val <= v /\ v <= before.max_val) => after = before
                 /\ ret = (after # before)

\* a value below min_val has moved the lower endpoint of existing bounds
C24_Witness ==
    /\ last.op = "bounds_update"
    /\ last.arg.row # NoBounds
    /\ last.arg.val < last.arg.row.min_val
    /\ bounds[last.arg.field_name].min_val = last.arg.val
    /\ bounds[last.arg.field_name].max_val = last.arg.row.max_val
    /\ ret = TRUE

\* C25: index_instance of a record whose value of a range field is not
\* finite leaves the bounds table entry of that field as it was, and creates
\* no entry when there was none.
C25_NonFiniteLeavesBounds ==
    [][ last'.op = "index_instance" =>
            \A f \in Range(RANGE_FILTERS) :
                ~isfinite(last'.arg.instance[f]) =>
                    /\ (f \in DOMAIN bounds') = (f \in DOMAIN bounds)
                    /\ f \in DOMAIN bounds => bounds'[f] = bounds[f] ]_vars

\* C26: every index_instance call is applied as one unit: after it either
\* the row of the record's UID is the projection of the record and the
\* bounds of every range field enclose the record's finite value, or the
\* index table and the bounds table are both as they were before the call.
C26_IndexAtomic ==
    [][ last'.op = "index_instance" =>
            LET instance == last'.arg.instance
                key == instance[uid_attribute]
            IN  \/ /\ key \in DOMAIN index'
                   /\ index'[key] = get_instance_info_from_data(instance)
                   /\ \A f \in Range(RANGE_FILTERS) :
                        isfinite(instance[f]) =>
                            /\ f \in DOMAIN bounds'
                            /\ bounds'[f].min_val # None
                            /\ bounds'[f].min_val <= instance[f]
                            /\ instance[f] <= bounds'[f].max_val
                \/ index' = index /\ bounds' = bounds ]_vars

----------------------------------------------------------------------------
(* Properties of the solution handlers and of the delete cascade *)

\* C27: create-solution for a payload whose instance UID has no row in the
\* instance index is rejected as not found and leaves the solution files and
\* the solution index as they were.
C27_SolutionNeedsIndexedInstance ==
    [][ ( /\ last'.op = "create_solution"
          /\ ~index_exists(index, last'.arg.solution[uid_attribute]) )
        => /\ last'.outcome = "HTTP404"
           /\ solFiles' = solFiles
           /\ solIndex' = solIndex ]_vars

\* a solution was rejected for an instance without a row while another
\* instance is indexed
C27_Witness ==
    /\ last.op = "create_solution"
    /\ last.outcome = "HTTP404"
    /\ ~index_exists(index, last.arg.solution[uid_attribute])
    /\ DOMAIN index # {}

\* the solution files of an instance: <instance_uid>/<solution_hash>
SolutionFilesOf(store, instance_uid) ==
    {p \in DOMAIN store :
        /\ startswith(p, PathOf(instance_uid) \o <<"/">>)
        /\ \A i \in (Len(PathOf(instance_uid)) + 2)..Len(p) : p[i] # "/"}

\* the solution rows of an instance
SolutionRowsOf(table, instance_uid) ==
    {k \in DOMAIN table : table[k][uid_attribute] = instance_uid}

\* C28: when delete_instance(u) has run to completion, u has no instance
\* file, no instance row, no asset, no solution file and no solution row.
C28_DeleteCascades ==
    (last.op = "delete_instance" /\ last.outcome = "ok") =>
        LET u == last.arg.uid
        IN  /\ ~fs_exists(files, u)
            /\ ~index_exists(index, u)
            /\ \A c \in ASSETS : <<c, PurePath(u)>> \notin assets
            /\ SolutionFilesOf(solFiles, u) = {}
            /\ SolutionRowsOf(solIndex, u) = {}

\* an instance with file and row was deleted while another instance still
\* has a solution file and a solution row
C28_Witness ==
    /\ last.op = "delete_instance" /\ last.outcome = "ok"
    /\ last.had_file /\ last.had_row
    /\ \E u \in CascadeUids \ {last.arg.uid} :
            /\ SolutionFilesOf(solFiles, u) # {}
            /\ SolutionRowsOf(solIndex, u) # {}

\* C29: delete_instance(u) leaves the instance file, the instance row, the
\* solution files and the solution rows of every other instance as they
\* were, also of an instance whose UID is u followed by "/" and more.
C29_DeleteTouchesOnlyOwn ==
    [][ last'.op = "delete_instance" =>
            \A u \in CascadeUids \ {last'.arg.uid} :
                /\ fs_exists(files', u) = fs_exists(files, u)
                /\ fs_exists(files, u) => files'[PathOf(u)] = files[PathOf(u)]
                /\ index_exists(index', u) = index_exists(index, u)
                /\ index_exists(index, u) => index'[u] = index[u]
                /\ SolutionFilesOf(solFiles', u) = SolutionFilesOf(solFiles, u)
                /\ \A p \in SolutionFilesOf(solFiles, u) : solFiles'[p] = solFiles[p]
                /\ SolutionRowsOf(solIndex', u) = SolutionRowsOf(solIndex, u)
                /\ \A k \in SolutionRowsOf(solIndex, u) : solIndex'[k] = solIndex[k] ]_vars

\* C30: once a reconciliation of both indexes has finished, every row of the
\* solution index names an instance UID that has a row in the instance
\* index.
C30_NoOrphanedSolutionRows ==
    (last.op = "sync" /\ last.outcome = "ok") =>
        \A k \in DOMAIN solIndex : index_exists(index, solIndex[k][uid_attribute])

----------------------------------------------------------------------------
(* Properties of catalog registration *)

RESERVED_NAMES == {"sort_by", "search", "offset", "limit"}

\* the field names a descriptor declares
DeclaredFields(info) ==
    Range(info.range_filters) \cup Range(info.boolean_filters)
        \cup Range(info.sort_fields) \cup Range(info.display_fields)

\* C22: registering a catalog raises an error when one of its declared
\* range-filter, boolean-filter, sort or display fields has a reserved name
\* or is no field of the record schema.
C22_RegistrationFailsFast ==
    ( /\ last.op = "register"
      /\ \E f \in DeclaredFields(last.arg.info) :
            f \in RESERVED_NAMES \/ f \notin last.arg.schema_fields )
    => last.outcome # "ok"

====
